---- MODULE Spec2Model ----
(***************************************************************************)
(* State-machine model of app.py: the paginated fetch of MGNREGA records   *)
(* (fetch_state_year_all), the district registry kept in district.json,    *)
(* the cache kept in cache.json (build_cache_for_state_year), the district *)
(* lookup and headline summary of district_page, and the file layer        *)
(* (read_json, write_json_atomic) that both JSON files go through.         *)
(*                                                                         *)
(* A Python str is a sequence of one-character strings, a list a sequence, *)
(* a dict a sequence of [key, value] records in insertion order (the order *)
(* json.dump writes and json.load restores).  A missing field and the      *)
(* empty string are both <<>> (both are falsy in `a or b or ""`).          *)
(***************************************************************************)
EXTENDS Integers, Sequences, FiniteSets, TLC

(***************************************************************************)
(* Strings                                                                 *)
(***************************************************************************)
Digits == <<"0", "1", "2", "3", "4", "5", "6", "7", "8", "9">>
Uppers == <<"A", "B", "C", "D", "E", "F", "G", "H", "I", "J", "K", "L", "M",
            "N", "O", "P", "Q", "R", "S", "T", "U", "V", "W", "X", "Y", "Z">>
Lowers == <<"a", "b", "c", "d", "e", "f", "g", "h", "i", "j", "k", "l", "m",
            "n", "o", "p", "q", "r", "s", "t", "u", "v", "w", "x", "y", "z">>

\* The characters of the model in code-point order.
Ascii == <<" ", "-">> \o Digits \o Uppers \o Lowers \o <<"|">>

\* ord(c)
Ord(c) == CHOOSE i \in 1..Len(Ascii) : Ascii[i] = c

IsLower(c) == \E i \in 1..Len(Lowers) : Lowers[i] = c

\* one character of str.upper()
UpperChar(c) ==
    IF IsLower(c) THEN Uppers[CHOOSE i \in 1..Len(Lowers) : Lowers[i] = c] ELSE c

\* s.upper()
StrUpper(s) == [i \in 1..Len(s) |-> UpperChar(s[i])]

RECURSIVE LStrip(_)
LStrip(s) == IF s # <<>> /\ s[1] = " " THEN LStrip(Tail(s)) ELSE s

RECURSIVE RStrip(_)
RStrip(s) ==
    IF s # <<>> /\ s[Len(s)] = " " THEN RStrip(SubSeq(s, 1, Len(s) - 1)) ELSE s

\* s.strip()
StrStrip(s) == RStrip(LStrip(s))

\* a < b on str (lexicographic by code point)
RECURSIVE StrLess(_, _)
StrLess(a, b) ==
    IF b = <<>> THEN FALSE
    ELSE IF a = <<>> THEN TRUE
    ELSE IF a[1] # b[1] THEN Ord(a[1]) < Ord(b[1])
    ELSE StrLess(Tail(a), Tail(b))

\* needle in hay (substring test on str)
StrContains(hay, needle) ==
    \E i \in 0..(Len(hay) - Len(needle)) :
        SubSeq(hay, i + 1, i + Len(needle)) = needle

\* x in xs (membership test on a list)
InList(x, xs) == \E i \in 1..Len(xs) : xs[i] = x

IsUpper(c) == \E i \in 1..Len(Uppers) : Uppers[i] = c

\* one character of str.lower()
LowerChar(c) ==
    IF IsUpper(c) THEN Lowers[CHOOSE i \in 1..Len(Uppers) : Uppers[i] = c] ELSE c

\* s.title(): a letter that follows a letter is lower-cased, any other
\* letter is upper-cased
StrTitle(s) ==
    [i \in 1..Len(s) |->
        IF i > 1 /\ (IsUpper(s[i - 1]) \/ IsLower(s[i - 1]))
        THEN LowerChar(s[i]) ELSE UpperChar(s[i])]

\* s[:n]
StrPrefix(s, n) == IF Len(s) <= n THEN s ELSE SubSeq(s, 1, n)

(***************************************************************************)
(* Configuration                                                           *)
(***************************************************************************)
API_PAGE_LIMIT == 999

CACHE_TTL_SECONDS == 24 * 3600

\* Sub-second resolution of time.time(): the clock counts ticks.
TicksPerSec == 2

\* int(time.time()) at clock tick c  (line 186)
IntTime(c) == c \div TicksPerSec

\* line 168 with the comparison turned round
IsFreshInverted(fetched_at, c) ==
    c - fetched_at * TicksPerSec > CACHE_TTL_SECONDS * TicksPerSec

\* line 168 with <= for <
IsFreshInclusive(fetched_at, c) ==
    c - fetched_at * TicksPerSec <= CACHE_TTL_SECONDS * TicksPerSec

\* time.time() - fetched_at < CACHE_TTL_SECONDS at clock tick c  (line 168)
IsFresh(fetched_at, c) ==
    c - fetched_at * TicksPerSec < CACHE_TTL_SECONDS * TicksPerSec

(***************************************************************************)
(* dicts (insertion ordered)                                               *)
(***************************************************************************)
HasKey(d, k) == \E i \in 1..Len(d) : d[i].key = k

\* d[k] / d.get(k)
Get(d, k) == d[CHOOSE i \in 1..Len(d) : d[i].key = k].value

\* d[k] = v
Put(d, k, v) ==
    IF HasKey(d, k)
    THEN [i \in 1..Len(d) |-> IF d[i].key = k THEN [key |-> k, value |-> v] ELSE d[i]]
    ELSE Append(d, [key |-> k, value |-> v])

(***************************************************************************)
(* Records and grouping                                                    *)
(***************************************************************************)
\* (r.get("district_name") or r.get("district") or "").strip()
DistrictOf(r) ==
    StrStrip(IF r.district_name # <<>> THEN r.district_name ELSE r.district)

\* f"{state_name.strip().upper()}||{fin_year.strip()}"
CacheKey(state_name, fin_year) ==
    StrUpper(StrStrip(state_name)) \o <<"|", "|">> \o StrStrip(fin_year)

\* one iteration of the grouping loop: grouped.setdefault(d_u, []).append(r)
GroupAdd(grouped, r) ==
    LET d == DistrictOf(r) IN
    IF d = <<>> THEN grouped
    ELSE LET d_u == StrUpper(d) IN
         IF HasKey(grouped, d_u)
         THEN Put(grouped, d_u, Append(Get(grouped, d_u), r))
         ELSE Put(grouped, d_u, <<r>>)

RECURSIVE GroupFrom(_, _, _)
GroupFrom(grouped, records, i) ==
    IF i > Len(records) THEN grouped
    ELSE GroupFrom(GroupAdd(grouped, records[i]), records, i + 1)

\* the grouping loop of build_cache_for_state_year
GroupByDistrict(records) == GroupFrom(<<>>, records, 1)

\* lines 182-190 with line 186 storing no time stamp
MakeEntryUnstamped(state_name, fin_year, records, c) ==
    [meta |-> [state |-> StrStrip(state_name),
               fin_year |-> StrStrip(fin_year),
               fetched_at |-> 0,
               total_records |-> Len(records)],
     by_district |-> GroupByDistrict(records)]

\* the entry build_cache_for_state_year stores under the key
MakeEntry(state_name, fin_year, records, c) ==
    [meta |-> [state |-> StrStrip(state_name),
               fin_year |-> StrStrip(fin_year),
               fetched_at |-> IntTime(c),
               total_records |-> Len(records)],
     by_district |-> GroupByDistrict(records)]

(***************************************************************************)
(* District registry update (the try block of fetch_state_year_all)        *)
(***************************************************************************)
\* position of the first record of the page that carries the name
FirstAt(records, dname) ==
    CHOOSE i \in 1..Len(records) :
        /\ DistrictOf(records[i]) = dname
        /\ \A j \in 1..(i - 1) : DistrictOf(records[j]) # dname

\* the names of a set, in the order in which the page first shows them
RECURSIVE InPageOrder(_, _)
InPageOrder(names, records) ==
    IF names = {} THEN <<>>
    ELSE LET n == CHOOSE x \in names :
                    \A y \in names : FirstAt(records, x) <= FirstAt(records, y)
         IN  <<n>> \o InPageOrder(names \ {n}, records)

\* the loop `for r in records`: every non-empty name that is not in the list
\* yet is appended once, at its first appearance
AddNames(districts, records) ==
    LET seen   == {districts[i] : i \in 1..Len(districts)}
        unseen == {DistrictOf(records[i]) : i \in 1..Len(records)} \ (seen \cup {<<>>})
    IN  districts \o InPageOrder(unseen, records)

\* insert x behind every element whose upper-cased key is <= x's (stable)
RECURSIVE InsertByUpper(_, _)
InsertByUpper(sorted, x) ==
    IF sorted = <<>> THEN <<x>>
    ELSE IF StrLess(StrUpper(x), StrUpper(Head(sorted)))
         THEN <<x>> \o sorted
         ELSE <<Head(sorted)>> \o InsertByUpper(Tail(sorted), x)

RECURSIVE SortFrom(_, _, _)
SortFrom(sorted, xs, i) ==
    IF i > Len(xs) THEN sorted
    ELSE SortFrom(InsertByUpper(sorted, xs[i]), xs, i + 1)

\* sorted(xs, key=lambda x: x.upper())
SortedByUpper(xs) == SortFrom(<<>>, xs, 1)

\* index of the first state entry matching state_u ignoring case, 0 if none
FindState(states, state_u) ==
    IF \E i \in 1..Len(states) : StrUpper(StrStrip(states[i].state)) = state_u
    THEN CHOOSE i \in 1..Len(states) :
            /\ StrUpper(StrStrip(states[i].state)) = state_u
            /\ \A j \in 1..(i - 1) : StrUpper(StrStrip(states[j].state)) # state_u
    ELSE 0

\* lines 120-141 without the test of line 139: the registry is saved whether
\* or not a name was appended
UpdateDistrictsAlwaysSaves(states, state_name, records) ==
    LET state_u == StrUpper(StrStrip(state_name))
        found   == FindState(states, state_u)
        states2 == IF found = 0
                   THEN Append(states, [state |-> state_name, districts |-> <<>>])
                   ELSE states
        idx     == IF found = 0 THEN Len(states) + 1 ELSE found
        after   == AddNames(states2[idx].districts, records)
    IN  [changed |-> TRUE,
         data |-> [states2 EXCEPT ![idx].districts = SortedByUpper(after)]]

\* lines 120-140: the registry after one page, and whether it has to be saved
UpdateDistricts(states, state_name, records) ==
    LET state_u == StrUpper(StrStrip(state_name))
        found   == FindState(states, state_u)
        states2 == IF found = 0
                   THEN Append(states, [state |-> state_name, districts |-> <<>>])
                   ELSE states
        idx     == IF found = 0 THEN Len(states) + 1 ELSE found
        before  == states2[idx].districts
        after   == AddNames(before, records)
        changed == Len(after) # Len(before)
    IN  [changed |-> changed,
         data |-> IF changed
                  THEN [states2 EXCEPT ![idx].districts = SortedByUpper(after)]
                  ELSE states2]

\* the district names stored for a state in a registry document
NamesOf(states, state_u) ==
    UNION {{states[i].districts[j] : j \in 1..Len(states[i].districts)} :
           i \in {k \in 1..Len(states) : StrUpper(StrStrip(states[k].state)) = state_u}}

(***************************************************************************)
(* Files.  A path holds an inode whose content is a complete JSON document *)
(* ("doc"), nothing yet ("empty": created or truncated by open(.., "w"))   *)
(* or bytes json.load rejects ("garbage").  data/<name>.json.tmp may be    *)
(* "absent".                                                               *)
(***************************************************************************)
Absent == [kind |-> "absent", doc |-> <<>>]
Empty == [kind |-> "empty", doc |-> <<>>]
Garbage == [kind |-> "garbage", doc |-> <<>>]
Doc(d) == [kind |-> "doc", doc |-> d]

RECURSIVE SumSeq(_)
SumSeq(ns) == IF ns = <<>> THEN 0 ELSE Head(ns) + SumSeq(Tail(ns))

\* number of characters json.dump writes for a document, up to layout
JsonLenRecord(r) ==
    Len(r.district_name) + Len(r.district) + Len(r.month) + Len(r.Wages) + 4

JsonLenDistricts(states) ==
    2 + SumSeq([i \in 1..Len(states) |->
                  Len(states[i].state) + 4
                  + SumSeq([j \in 1..Len(states[i].districts) |->
                              Len(states[i].districts[j]) + 2])])

JsonLenGroups(by_district) ==
    SumSeq([i \in 1..Len(by_district) |->
              Len(by_district[i].key) + 2
              + SumSeq([j \in 1..Len(by_district[i].value) |->
                          JsonLenRecord(by_district[i].value[j])])])

JsonLenCache(cache) ==
    2 + SumSeq([i \in 1..Len(cache) |->
                  Len(cache[i].key) + 2
                  + Len(cache[i].value.meta.state)
                  + Len(cache[i].value.meta.fin_year) + 4
                  + JsonLenGroups(cache[i].value.by_district)])

JsonLen(file, data) ==
    IF file = "cache" THEN JsonLenCache(data) ELSE JsonLenDistricts(data)

\* open(tmp, "w"): the file at tmp is created, or truncated in place
OpenForWrite(content) == Empty

\* json.dump(data, f) followed by close, through a handle positioned at 0:
\* the bytes of data replace the first bytes of whatever the inode holds
WriteThrough(content, file, data) ==
    IF content.kind = "empty" THEN Doc(data)
    ELSE IF content.kind = "doc" /\ JsonLen(file, data) >= JsonLen(file, content.doc)
         THEN Doc(data)
         ELSE Garbage

\* read_json(path): the document, or None (here: ok = FALSE) on any exception
read_json(content) ==
    IF content.kind = "doc" THEN [ok |-> TRUE, doc |-> content.doc]
    ELSE [ok |-> FALSE, doc |-> <<>>]

\* load_cache(): {} when read_json returned None
load_cache(content) == read_json(content).doc

\* load_districts(): {"states": []} when read_json returned None
load_districts(content) == read_json(content).doc

(***************************************************************************)
(* Bounds and inputs                                                       *)
(***************************************************************************)
\* request threads of the server
Procs == {1, 2}

\* requests one thread serves in a sequential run / in a concurrent run
MaxRequests == 1
MaxConcRequests == 1

\* page requests one fetch may issue before the model stops following it
MaxFetchRequests == 4

\* upstream sizes tried by the pagination runs: whole pages, one more, one less
MaxPages == 2

\* clock instants: the start and one TTL later, give or take MaxSlack ticks
MaxSlack == 2

\* Number of upstream records whose order of arrival is drawn freely.
MaxGroupPool == 4

Times ==
    {t \in {k * CACHE_TTL_SECONDS * TicksPerSec + d :
              k \in {0, 1}, d \in (0 - MaxSlack)..MaxSlack} : t >= 0}

sOd == <<"O", "d">>
sGA == <<"G", "A">>
y24 == <<"2", "4">>
y25 == <<"2", "5">>
dPuri == <<"P", "u", "r", "i">>
dPURI == <<"P", "U", "R", "I">>
dCuttack == <<"C", "u", "t", "t", "a", "c", "k">>
dAngul == <<"A", "n", "g", "u", "l">>
dGoa == <<"G", "o", "a">>

StateInputs == {sOd, sGA}
YearInputs == {y24, y25}
DistrictInputs == {<<"p", "u", "r", "i">>, <<"P", "U", "R">>, <<"u">>, <<"X">>}

mJan == <<"J", "a", "n">>
mFeb == <<"F", "e", "b">>
mMar == <<"M", "a", "r">>
mMarch == <<"m", "a", "r", "c", "h">>
mDash == <<"-">>

\* one upstream record with its "month" and "Wages" fields
RecM(id, district_name, district, month, Wages) ==
    [id |-> id, district_name |-> district_name, district |-> district,
     month |-> month, Wages |-> Wages]

\* one upstream record that carries no month and no wages
Rec(id, district_name, district) == RecM(id, district_name, district, <<>>, <<>>)

\* a small upstream data set: two years of one state, one year of another
SmallUpstream ==
    << [key |-> <<StrUpper(sOd), y24>>,
        value |-> << RecM(1, <<>>, dCuttack, mJan, <<"1", "0">>),
                     RecM(2, dPuri, <<>>, mMar, <<"3", "0">>),
                     RecM(3, dPURI, <<>>, mJan, <<"1", "0">>),
                     RecM(4, dPuri, <<>>, mFeb, <<"2", "0">>),
                     RecM(5, <<" ">>, dGoa, mMarch, <<"7">>),
                     RecM(6, dCuttack, <<>>, mJan, <<"2", "0">>) >>],
       [key |-> <<StrUpper(sOd), y25>>,
        value |-> << RecM(7, dPuri, <<>>, mDash, <<"5">>),
                     RecM(8, dAngul, <<>>, mMarch, <<"8">>),
                     RecM(9, dPuri, <<>>, <<>>, <<"6">>) >>],
       [key |-> <<sGA, y24>>,
        value |-> << RecM(10, dGoa, <<>>, mJan, <<"4">>) >>] >>

\* an upstream data set of T records for one (state, year)
BigUpstream(T) ==
    << [key |-> <<StrUpper(sOd), y24>>,
        value |-> [i \in 1..T |->
                     Rec(i, IF i % 2 = 0 THEN dPuri ELSE dCuttack, <<>>)]] >>

FetchTotals ==
    {t \in {k * API_PAGE_LIMIT + d : k \in 0..MaxPages, d \in {-1, 0, 1}} : t >= 0}
    \cup {2500}

(***************************************************************************)
(* The headline summary of district_page                                   *)
(***************************************************************************)
\* line 250: month_order, the month names in calendar order
month_order ==
    << <<"J", "a", "n">>, <<"F", "e", "b">>, <<"M", "a", "r">>, <<"A", "p", "r">>,
       <<"M", "a", "y">>, <<"J", "u", "n">>, <<"J", "u", "l">>, <<"A", "u", "g">>,
       <<"S", "e", "p">>, <<"O", "c", "t">>, <<"N", "o", "v">>, <<"D", "e", "c">> >>

\* lines 251-253: month_idx, 0 for a month that is no key of month_order
month_idx(rec) ==
    LET m == StrTitle(StrPrefix(StrStrip(rec.month), 3))
    IN  IF \E i \in 1..Len(month_order) : month_order[i] = m
        THEN CHOOSE i \in 1..Len(month_order) : month_order[i] = m
        ELSE 0

\* line 254 without reverse=True: rec goes behind every record whose
\* month_idx is not larger
InsertByMonthAscending(sorted, rec) ==
    LET n == Cardinality({i \in 1..Len(sorted) : month_idx(sorted[i]) <= month_idx(rec)})
    IN  SubSeq(sorted, 1, n) \o <<rec>> \o SubSeq(sorted, n + 1, Len(sorted))

\* one step of the stable sort of line 254: rec goes behind every record
\* whose month_idx is not smaller
InsertByMonth(sorted, rec) ==
    LET n == Cardinality({i \in 1..Len(sorted) : month_idx(sorted[i]) >= month_idx(rec)})
    IN  SubSeq(sorted, 1, n) \o <<rec>> \o SubSeq(sorted, n + 1, Len(sorted))

RECURSIVE SortByMonthFrom(_, _, _)
SortByMonthFrom(found, i, sorted) ==
    IF i > Len(found) THEN sorted
    ELSE SortByMonthFrom(found, i + 1, InsertByMonth(sorted, found[i]))

\* line 254: sorted(found, key=month_idx, reverse=True)
SortedByMonth(found) == SortByMonthFrom(found, 1, <<>>)

\* line 241: summary = None
NoSummary == [present |-> FALSE, month |-> <<>>, wages |-> <<>>]

\* lines 240-266: the headline summary made from the latest record; of its
\* seven fields, all read from `latest` the same way, month and wages are kept
Summarize(found) ==
    IF found = <<>> THEN NoSummary
    ELSE LET latest == SortedByMonth(found)[1]
         IN  [present |-> TRUE, month |-> latest.month, wages |-> latest.Wages]

(***************************************************************************)
(* State                                                                   *)
(***************************************************************************)
VARIABLES
    clock,      \* time.time() in ticks
    upstream,   \* what the data.gov.in resource holds, per (state, fin_year)
    honest,     \* whether the upstream reports "count" and "total" truthfully
    apiCalls,   \* GET requests the upstream has received
    disk,       \* content of data/cache.json and data/district.json
    tmpf,       \* content of data/cache.json.tmp and data/district.json.tmp
    proc        \* per thread: program counter and locals

vars == <<clock, upstream, honest, apiCalls, disk, tmpf, proc>>

NoEntry ==
    [meta |-> [state |-> <<>>, fin_year |-> <<>>, fetched_at |-> 0, total_records |-> 0],
     by_district |-> <<>>]

\* locals of a thread that is not inside a request
Fresh(pc, quota) ==
    [pc |-> pc, quota |-> quota, op |-> "none",
     state_name |-> <<>>, fin_year |-> <<>>, district |-> <<>>,
     ret |-> "none", cache |-> <<>>, hit |-> FALSE,
     all_records |-> <<>>, records |-> <<>>, offset |-> 0, count |-> 0, total |-> 0,
     nreq |-> 0, failed |-> "no",
     wdata |-> <<>>, fd |-> "none",
     entry |-> NoEntry, found |-> <<>>, summary |-> NoSummary,
     built_at |-> 0, changed |-> FALSE, c_none |-> FALSE, d_none |-> FALSE]

\* records the upstream holds for filters[state_name], filters[fin_year]
UpstreamFor(state_u, fin_u) ==
    IF HasKey(upstream, <<state_u, fin_u>>) THEN Get(upstream, <<state_u, fin_u>>)
    ELSE <<>>

\* the page the upstream serves for (offset, limit)
Page(records, offset, limit) ==
    IF offset >= Len(records) THEN <<>>
    ELSE SubSeq(records, offset + 1,
                IF offset + limit < Len(records) THEN offset + limit ELSE Len(records))

\* data/cache.json as an earlier run left it: a complete entry fetched at time 0
WarmCache ==
    Put(<<>>, CacheKey(sOd, y24),
        MakeEntry(sOd, y24, Get(SmallUpstream, <<StrUpper(sOd), y24>>), 0))

\* lines 20-30: both files exist when the first request arrives
InitFiles(caches) ==
    /\ disk \in {[cache |-> Doc(c), district |-> Doc(<<>>)] : c \in caches}
    /\ tmpf = [cache |-> Absent, district |-> Absent]

\* one thread, requests one after the other
Init ==
    /\ clock = 0
    /\ upstream = SmallUpstream
    /\ honest = TRUE
    /\ apiCalls = 0
    /\ InitFiles({<<>>, WarmCache})
    /\ proc = [p \in Procs |-> IF p = 1 THEN Fresh("idle", MaxRequests)
                                        ELSE Fresh("off", 0)]

\* every thread serves requests, interleaved
InitConc ==
    /\ clock = 0
    /\ upstream = SmallUpstream
    /\ honest = TRUE
    /\ apiCalls = 0
    /\ InitFiles({WarmCache})
    /\ proc = [p \in Procs |-> Fresh("idle", MaxConcRequests)]

\* one fetch_state_year_all call against an upstream of T records
InitFetch ==
    /\ clock = 0
    /\ upstream \in {BigUpstream(T) : T \in FetchTotals}
    /\ honest \in BOOLEAN
    /\ apiCalls = 0
    /\ InitFiles({<<>>})
    /\ proc = [p \in Procs |-> IF p = 1 THEN Fresh("idle", 1) ELSE Fresh("off", 0)]

\* the records the grouping of lines 172-179 is given, in reference order
GroupPool == SubSeq(Get(SmallUpstream, <<StrUpper(sOd), y24>>), 1, MaxGroupPool)

\* every order in which the upstream can hand out the records of GroupPool
Orders(records) ==
    {[i \in 1..Len(records) |-> records[f[i]]] :
        f \in {g \in [1..Len(records) -> 1..Len(records)] :
                 \A i, j \in 1..Len(records) : g[i] = g[j] => i = j}}

\* one thread, one request against an upstream that holds the records of
\* GroupPool in any order
InitGroup ==
    /\ clock = 0
    /\ upstream \in {Put(SmallUpstream, <<StrUpper(sOd), y24>>, o) :
                         o \in Orders(GroupPool)}
    /\ honest = TRUE
    /\ apiCalls = 0
    /\ InitFiles({<<>>})
    /\ proc = [p \in Procs |-> IF p = 1 THEN Fresh("idle", 1) ELSE Fresh("off", 0)]

(***************************************************************************)
(* Control flow.  pc names the next source line with an effect outside the *)
(* thread: 162/215/219 load_cache, 102 requests.get, 120 load_districts,   *)
(* 43 open(tmp, "w"), 44 json.dump and close, 45 os.replace.               *)
(***************************************************************************)
Set(p, rec) == proc' = [proc EXCEPT ![p] = rec]

\* lines 232-238 with the loop of line 235 running to its end, so that the
\* last key that contains the query wins
MatchDistrictLast(entry, district) ==
    LET q  == StrUpper(StrStrip(district))
        bd == entry.by_district
    IN  IF HasKey(bd, q) /\ Get(bd, q) # <<>> THEN Get(bd, q)
        ELSE IF \E i \in 1..Len(bd) : StrContains(bd[i].key, q)
             THEN bd[CHOOSE i \in 1..Len(bd) :
                        /\ StrContains(bd[i].key, q)
                        /\ \A j \in (i + 1)..Len(bd) : ~StrContains(bd[j].key, q)].value
             ELSE <<>>

\* lines 232-238: exact match on the rebuilt entry, then the first key in
\* iteration order that contains the query
MatchDistrict(entry, district) ==
    LET q  == StrUpper(StrStrip(district))
        bd == entry.by_district
    IN  IF HasKey(bd, q) /\ Get(bd, q) # <<>> THEN Get(bd, q)
        ELSE IF \E i \in 1..Len(bd) : StrContains(bd[i].key, q)
             THEN bd[CHOOSE i \in 1..Len(bd) :
                        /\ StrContains(bd[i].key, q)
                        /\ \A j \in 1..(i - 1) : ~StrContains(bd[j].key, q)].value
             ELSE <<>>

\* build_cache_for_state_year returns entry to its caller
BuildReturn(me, entry, hit) ==
    IF me.ret = "219"
    THEN [me EXCEPT !.pc = "219", !.entry = entry, !.hit = hit]
    ELSE IF me.ret = "232"
    THEN [me EXCEPT !.pc = "done", !.entry = entry, !.hit = hit,
                    !.found = MatchDistrict(entry, me.district),
                    !.summary = Summarize(MatchDistrict(entry, me.district))]
    ELSE [me EXCEPT !.pc = "done", !.entry = entry, !.hit = hit]

\* lines 172-190 merging instead of replacing: the groups of the previous
\* entry whose district the new fetch did not return are kept
FetchReturnMerging(me, now) ==
    IF me.op = "fetch" THEN [me EXCEPT !.pc = "done"]
    ELSE LET key   == CacheKey(me.state_name, me.fin_year)
             new   == MakeEntry(me.state_name, me.fin_year, me.all_records, now)
             old   == IF HasKey(me.cache, key) THEN Get(me.cache, key).by_district
                      ELSE <<>>
             Kept(g) == ~HasKey(new.by_district, g.key)
             entry == [new EXCEPT !.by_district = new.by_district \o SelectSeq(old, Kept)]
         IN  [me EXCEPT !.pc = "43c", !.entry = entry, !.wdata = Put(me.cache, key, entry)]

\* fetch_state_year_all returns all_records; in build_cache_for_state_year
\* lines 172-190 group them and put the new entry into the loaded cache
FetchReturn(me, now) ==
    IF me.op = "fetch" THEN [me EXCEPT !.pc = "done"]
    ELSE LET entry == MakeEntry(me.state_name, me.fin_year, me.all_records, now) IN
         [me EXCEPT !.pc = "43c", !.entry = entry, !.built_at = now,
                    !.wdata = Put(me.cache, CacheKey(me.state_name, me.fin_year), entry)]

\* line 147 with > for >=
StopsAfterPageStrict(me) == Len(me.all_records) > me.total \/ me.count = 0

\* lines 147-152: the stopping condition after a page
StopsAfterPage(me) == Len(me.all_records) >= me.total \/ me.count = 0

AfterPage(me, now) ==
    IF StopsAfterPage(me) THEN FetchReturn(me, now)
    ELSE [me EXCEPT !.pc = "102", !.offset = me.offset + me.count]

\* a thread takes the next request
CanStart(p) == proc[p].pc \in {"idle", "done", "raised"} /\ proc[p].quota > 0

StartFetch(p) ==
    /\ CanStart(p)
    /\ \E st \in StateInputs, fy \in YearInputs :
         Set(p, [Fresh("102", proc[p].quota - 1) EXCEPT
                   !.op = "fetch", !.state_name = st, !.fin_year = fy])
    /\ UNCHANGED <<clock, upstream, honest, apiCalls, disk, tmpf>>

StartBuild(p) ==
    /\ CanStart(p)
    /\ \E st \in StateInputs, fy \in YearInputs :
         Set(p, [Fresh("162", proc[p].quota - 1) EXCEPT
                   !.op = "build", !.ret = "top", !.state_name = st, !.fin_year = fy])
    /\ UNCHANGED <<clock, upstream, honest, apiCalls, disk, tmpf>>

\* district_page, lines 206-211
StartPage(p) ==
    /\ CanStart(p)
    /\ \E st \in StateInputs, fy \in YearInputs, d \in DistrictInputs \cup {<<" ">>} :
         LET state == StrStrip(st)
             fin_year == StrStrip(fy)
             district == StrStrip(d)
         IN  Set(p, [Fresh(IF state = <<>> \/ fin_year = <<>> \/ district = <<>>
                           THEN "done" ELSE "215",
                           proc[p].quota - 1) EXCEPT
                       !.op = "district_page", !.state_name = state,
                       !.fin_year = fin_year, !.district = district])
    /\ UNCHANGED <<clock, upstream, honest, apiCalls, disk, tmpf>>

\* build_cache_for_state_year, lines 161-171
BuildLoad(p) ==
    LET me    == proc[p]
        r     == read_json(disk.cache)
        cache == load_cache(disk.cache)
        key   == CacheKey(me.state_name, me.fin_year)
    IN  /\ me.pc = "162"
        /\ IF HasKey(cache, key) /\ IsFresh(Get(cache, key).meta.fetched_at, clock)
           THEN Set(p, BuildReturn([me EXCEPT !.c_none = ~r.ok], Get(cache, key), TRUE))
           ELSE Set(p, [me EXCEPT !.pc = "102", !.cache = cache, !.c_none = ~r.ok,
                                  !.all_records = <<>>, !.offset = 0, !.nreq = 0])
        /\ UNCHANGED <<clock, upstream, honest, apiCalls, disk, tmpf>>

\* lines 221-230 with a freshness test: a stale entry counts as not found
LookupFreshOnly(me, cache, ok) ==
    LET key   == CacheKey(me.state_name, me.fin_year)
        q     == StrUpper(StrStrip(me.district))
        found == IF /\ HasKey(cache, key)
                    /\ HasKey(Get(cache, key).by_district, q)
                    /\ IsFresh(Get(cache, key).meta.fetched_at, clock)
                 THEN Get(Get(cache, key).by_district, q) ELSE <<>>
    IN  IF found # <<>>
        THEN [me EXCEPT !.pc = "done", !.found = found, !.c_none = ~ok,
                        !.entry = Get(cache, key), !.summary = Summarize(found)]
        ELSE [me EXCEPT !.pc = "162", !.ret = "232", !.c_none = ~ok]

\* district_page, lines 221-230, on the cache just loaded
Lookup(me, cache, ok) ==
    LET key   == CacheKey(me.state_name, me.fin_year)
        q     == StrUpper(StrStrip(me.district))
        found == IF HasKey(cache, key) /\ HasKey(Get(cache, key).by_district, q)
                 THEN Get(Get(cache, key).by_district, q) ELSE <<>>
    IN  IF found # <<>>
        THEN [me EXCEPT !.pc = "done", !.found = found, !.c_none = ~ok,
                        !.entry = Get(cache, key), !.summary = Summarize(found)]
        ELSE [me EXCEPT !.pc = "162", !.ret = "232", !.c_none = ~ok]

\* district_page, lines 214-218
PageLoad(p) ==
    LET me    == proc[p]
        r     == read_json(disk.cache)
        cache == load_cache(disk.cache)
    IN  /\ me.pc = "215"
        /\ IF ~HasKey(cache, CacheKey(me.state_name, me.fin_year))
           THEN Set(p, [me EXCEPT !.pc = "162", !.ret = "219", !.c_none = ~r.ok])
           ELSE Set(p, Lookup(me, cache, r.ok))
        /\ UNCHANGED <<clock, upstream, honest, apiCalls, disk, tmpf>>

\* district_page, line 219
PageReload(p) ==
    LET me == proc[p] IN
    /\ me.pc = "219"
    /\ Set(p, Lookup(me, load_cache(disk.cache), read_json(disk.cache).ok))
    /\ UNCHANGED <<clock, upstream, honest, apiCalls, disk, tmpf>>

\* lines 103-109 with the exception let through instead of `break`
OnFailureRaises(me, outcome, now) == [me EXCEPT !.pc = "raised", !.failed = outcome]

\* lines 103-109: a transport error or a non-200 status breaks the loop
OnFailure(me, outcome, now) == FetchReturn([me EXCEPT !.failed = outcome], now)

\* what the upstream may put in "count" and "total" beside a page
CountReports(page) ==
    IF honest THEN {Len(page)} ELSE {Len(page), Len(page) + 1}

TotalReports(T) ==
    IF honest THEN {T} ELSE {T, T + 1}

\* fetch_state_year_all, lines 90-116: one page request
Request(p) ==
    LET me   == proc[p]
        all  == UpstreamFor(StrUpper(StrStrip(me.state_name)), StrStrip(me.fin_year))
        page == Page(all, me.offset, API_PAGE_LIMIT)
        sent == [me EXCEPT !.nreq = me.nreq + 1]
    IN  /\ me.pc = "102"
        /\ me.nreq < MaxFetchRequests
        /\ \E outcome \in {"error", "non200", "badjson", "ok"} :
             IF outcome = "ok"
             THEN \E count \in CountReports(page), total \in TotalReports(Len(all)) :
                    Set(p, [sent EXCEPT !.pc = "120", !.records = page,
                                        !.count = count, !.total = total,
                                        !.all_records = me.all_records \o page])
             ELSE IF outcome = "badjson"
             THEN Set(p, [sent EXCEPT !.pc = "raised"])
             ELSE Set(p, OnFailure(sent, outcome, clock))
        /\ apiCalls' = apiCalls + 1
        /\ UNCHANGED <<clock, upstream, honest, disk, tmpf>>

\* fetch_state_year_all, lines 119-141 up to the call of save_districts
UpdateRegistry(p) ==
    LET me == proc[p]
        r  == read_json(disk.district)
        u  == UpdateDistricts(load_districts(disk.district), me.state_name, me.records)
    IN  /\ me.pc = "120"
        /\ IF u.changed
           THEN Set(p, [me EXCEPT !.pc = "43d", !.wdata = u.data, !.d_none = ~r.ok,
                                  !.changed = TRUE])
           ELSE Set(p, AfterPage([me EXCEPT !.d_none = ~r.ok, !.changed = FALSE], clock))
        /\ UNCHANGED <<clock, upstream, honest, apiCalls, disk, tmpf>>

\* the file a write_json_atomic step works on
FileOf(pc) == IF pc \in {"43c", "44c", "45c"} THEN "cache" ELSE "district"

\* write_json_atomic, line 43: open(tmp, "w")
SaveOpen(p) ==
    LET me == proc[p]
        f  == FileOf(me.pc)
    IN  /\ me.pc \in {"43c", "43d"}
        /\ tmpf' = [tmpf EXCEPT ![f] = OpenForWrite(tmpf[f])]
        /\ Set(p, [me EXCEPT !.pc = IF f = "cache" THEN "44c" ELSE "44d", !.fd = "tmp"])
        /\ UNCHANGED <<clock, upstream, honest, apiCalls, disk>>

\* write_json_atomic, line 44: json.dump and the close that flushes it
SaveDump(p) ==
    LET me == proc[p]
        f  == FileOf(me.pc)
    IN  /\ me.pc \in {"44c", "44d"}
        /\ tmpf' = IF me.fd = "tmp"
                   THEN [tmpf EXCEPT ![f] = WriteThrough(tmpf[f], f, me.wdata)]
                   ELSE tmpf
        /\ disk' = IF me.fd = "path"
                   THEN [disk EXCEPT ![f] = WriteThrough(disk[f], f, me.wdata)]
                   ELSE disk
        /\ Set(p, [me EXCEPT !.pc = IF f = "cache" THEN "45c" ELSE "45d", !.fd = "none"])
        /\ UNCHANGED <<clock, upstream, honest, apiCalls>>

\* where the thread goes when write_json_atomic is over
AfterSave(me, f, now, saved) ==
    IF f = "cache"
    THEN (IF saved THEN BuildReturn(me, me.entry, FALSE) ELSE [me EXCEPT !.pc = "raised"])
    ELSE AfterPage(me, now)

\* write_json_atomic, line 45: os.replace(tmp, path)
SaveReplace(p) ==
    LET me == proc[p]
        f  == FileOf(me.pc)
        there == tmpf[f].kind # "absent"
    IN  /\ me.pc \in {"45c", "45d"}
        /\ disk' = IF there THEN [disk EXCEPT ![f] = tmpf[f]] ELSE disk
        /\ tmpf' = IF there THEN [tmpf EXCEPT ![f] = Absent] ELSE tmpf
        /\ proc' = [q \in Procs |->
                      IF q = p THEN AfterSave(me, f, clock, there)
                      ELSE IF there /\ proc[q].pc \in {"44c", "44d"}
                                    /\ FileOf(proc[q].pc) = f
                           THEN [proc[q] EXCEPT
                                   !.fd = IF proc[q].fd = "tmp" THEN "path" ELSE "orphan"]
                           ELSE proc[q]]
        /\ UNCHANGED <<clock, upstream, honest, apiCalls>>

\* time passes
Tick ==
    /\ \E t \in Times : t > clock /\ clock' = t
    /\ UNCHANGED <<upstream, honest, apiCalls, disk, tmpf, proc>>

Next ==
    \/ Tick
    \/ \E p \in Procs :
         \/ StartBuild(p)
         \/ StartPage(p)
         \/ BuildLoad(p)
         \/ PageLoad(p)
         \/ PageReload(p)
         \/ Request(p)
         \/ UpdateRegistry(p)
         \/ SaveOpen(p)
         \/ SaveDump(p)
         \/ SaveReplace(p)

NextConc ==
    \E p \in Procs :
       \/ StartBuild(p)
       \/ StartPage(p)
       \/ BuildLoad(p)
       \/ PageLoad(p)
       \/ PageReload(p)
       \/ Request(p)
       \/ UpdateRegistry(p)
       \/ SaveOpen(p)
       \/ SaveDump(p)
       \/ SaveReplace(p)

NextFetch ==
    \E p \in Procs :
       \/ StartFetch(p)
       \/ Request(p)
       \/ UpdateRegistry(p)
       \/ SaveOpen(p)
       \/ SaveDump(p)
       \/ SaveReplace(p)

\* sequential requests, with time passing
Spec == Init /\ [][Next]_vars

\* concurrent requests
SpecConc == InitConc /\ [][NextConc]_vars

\* one paginated fetch
SpecFetch == InitFetch /\ [][NextFetch]_vars

NextGroup ==
    \E p \in Procs :
       \/ StartBuild(p)
       \/ StartPage(p)
       \/ BuildLoad(p)
       \/ PageLoad(p)
       \/ PageReload(p)
       \/ Request(p)
       \/ UpdateRegistry(p)
       \/ SaveOpen(p)
       \/ SaveDump(p)
       \/ SaveReplace(p)

\* one request on records that arrive in any order
SpecGroup == InitGroup /\ [][NextGroup]_vars

(***************************************************************************)
(* Properties                                                              *)
(***************************************************************************)
\* the thread p took a step
Stepped(p) == proc'[p] # proc[p]

\* the key and the upstream records of a thread's current call
KeyOf(p) == CacheKey(proc[p].state_name, proc[p].fin_year)

UpstreamOf(p) ==
    UpstreamFor(StrUpper(StrStrip(proc[p].state_name)), StrStrip(proc[p].fin_year))

\* the entries of data/cache.json as a reader parses them now
StoredCache == load_cache(disk.cache)

\* C1: every entry stored in the cache is complete: its by_district is the
\* grouping of all the records the upstream holds for the entry's state and
\* fiscal year (no entry comes from a fetch that stopped early).
C1_EntriesComplete ==
    \A i \in 1..Len(StoredCache) :
        LET e == StoredCache[i].value IN
        e.by_district =
            GroupByDistrict(UpstreamFor(StrUpper(e.meta.state), e.meta.fin_year))

\* the district names data/district.json holds for a state
StoredNames(content, state_u) == NamesOf(load_districts(content), state_u)

\* C2: under any interleaving the registry only grows: a name stored for a
\* state is still stored for it after every step.
C2_RegistryOnlyGrows ==
    [][\A st \in StateInputs :
          StoredNames(disk.district, StrUpper(st))
              \subseteq StoredNames(disk'.district, StrUpper(st))]_vars

\* C3: no load_cache ever reads a torn cache file: read_json never has to
\* fall back to None on data/cache.json.
C3_NoTornRead == \A p \in Procs : ~proc[p].c_none

\* C4: when two build_cache_for_state_year calls for different keys have both
\* fetched, saved and returned, the cache file holds the entry of each.
C4_BothEntriesKept ==
    \A p, q \in Procs :
        ( /\ p # q
          /\ proc[p].op = "build" /\ proc[p].pc = "done" /\ ~proc[p].hit
          /\ proc[q].op = "build" /\ proc[q].pc = "done" /\ ~proc[q].hit
          /\ KeyOf(p) # KeyOf(q) )
        => /\ HasKey(StoredCache, KeyOf(p))
           /\ Get(StoredCache, KeyOf(p)) = proc[p].entry

\* C5: a build_cache_for_state_year call that finds its key present and fresh
\* returns the stored entry, sends no request and changes neither file.
C5_FreshHitChangesNothing ==
    [][\A p \in Procs :
         ( /\ proc[p].pc = "162" /\ Stepped(p)
           /\ HasKey(StoredCache, KeyOf(p))
           /\ clock < (Get(StoredCache, KeyOf(p)).meta.fetched_at + CACHE_TTL_SECONDS)
                        * TicksPerSec )
         => /\ proc'[p].pc \in {"done", "219"}
            /\ proc'[p].entry = Get(StoredCache, KeyOf(p))
            /\ apiCalls' = apiCalls
            /\ disk' = disk /\ tmpf' = tmpf]_vars

C5_Witness ==
    \E p \in Procs :
        /\ proc[p].op = "build" /\ proc[p].pc = "done" /\ proc[p].hit
        /\ proc[p].entry = Get(StoredCache, KeyOf(p))
        /\ apiCalls = 0

\* C6: build_cache_for_state_year goes on to fetch exactly when the key is
\* absent or now - fetched_at >= TTL (now = clock / TicksPerSec seconds).
C6_RefetchIffAbsentOrStale ==
    [][\A p \in Procs :
         (proc[p].pc = "162" /\ Stepped(p))
         => ( proc'[p].pc = "102"
              <=> \/ ~HasKey(StoredCache, KeyOf(p))
                  \/ clock >= (Get(StoredCache, KeyOf(p)).meta.fetched_at
                                 + CACHE_TTL_SECONDS) * TicksPerSec )]_vars

\* a hit on an entry with fetched_at = now - TTL + 1
C6_Witness ==
    \E p \in Procs :
        /\ proc[p].op = "build" /\ proc[p].pc = "done" /\ proc[p].hit
        /\ clock = (proc[p].entry.meta.fetched_at + CACHE_TTL_SECONDS - 1) * TicksPerSec

\* ceil(a / b)
CeilDiv(a, b) == (a + b - 1) \div b

\* C7: against a truthful upstream of T records a fetch that meets no failure
\* asks for page k at offset (k-1) * API_PAGE_LIMIT, ends after
\* max(1, ceil(T / API_PAGE_LIMIT)) requests and returns the T records, each
\* once (the upstream sequence itself).
C7_PaginationExact ==
    \A p \in Procs :
        (honest /\ proc[p].op = "fetch" /\ proc[p].failed = "no")
        => /\ proc[p].pc = "102" => proc[p].offset = proc[p].nreq * API_PAGE_LIMIT
           /\ proc[p].pc = "done"
              => LET T == Len(UpstreamOf(p))
                     n == CeilDiv(T, API_PAGE_LIMIT)
                 IN  /\ proc[p].nreq = IF n > 1 THEN n ELSE 1
                     /\ proc[p].all_records = UpstreamOf(p)

\* T = 2500: 3 requests, 2500 records
C7_Witness ==
    \E p \in Procs :
        /\ honest /\ proc[p].op = "fetch" /\ proc[p].pc = "done"
        /\ proc[p].failed = "no"
        /\ Len(UpstreamOf(p)) = 2500
        /\ proc[p].nreq = 3 /\ Len(proc[p].all_records) = 2500

\* C8: after a response whose page holds no record the fetch issues no
\* further request, whatever the response reports.
C8_StopsOnEmptyPage ==
    \A p \in Procs :
        (proc[p].op = "fetch" /\ proc[p].pc = "102" /\ proc[p].nreq > 0)
        => proc[p].records # <<>>

\* C9: a transport error or a non-200 status on request k ends the call
\* normally, with the records of the k-1 pages before it and no request
\* after it.
C9_FailureReturnsPartial ==
    \A p \in Procs :
        (proc[p].op = "fetch" /\ proc[p].failed \in {"error", "non200"})
        => /\ proc[p].pc = "done"
           /\ apiCalls = proc[p].nreq
           /\ honest => proc[p].all_records =
                          SubSeq(UpstreamOf(p), 1, (proc[p].nreq - 1) * API_PAGE_LIMIT)

\* the second request fails: one page is returned
C9_Witness ==
    \E p \in Procs :
        /\ proc[p].op = "fetch" /\ proc[p].pc = "done" /\ proc[p].failed = "error"
        /\ proc[p].nreq = 2 /\ Len(proc[p].all_records) = API_PAGE_LIMIT

\* C10: when the exact district match fails, the build_cache_for_state_year
\* call of line 230 fetches from the upstream, fresh entry or not.
C10_MissForcesRefetch ==
    [][\A p \in Procs :
         (proc[p].pc = "162" /\ proc[p].ret = "232" /\ Stepped(p))
         => proc'[p].pc = "102"]_vars

\* a district_page request that got past the redirect of line 210 and answered
Answered(p) ==
    /\ proc[p].op = "district_page" /\ proc[p].pc = "done"
    /\ proc[p].state_name # <<>> /\ proc[p].fin_year # <<>> /\ proc[p].district # <<>>

\* C11: district_page resolves the district exact-first: when the trimmed,
\* upper-cased query is a by_district key with records, the response carries
\* that key's records; otherwise it carries the records of the first key, in
\* the entry's iteration order, that contains the query; when no key contains
\* it, found is empty and there is no summary.
C11_ExactThenFirstSubstring ==
    \A p \in Procs :
        Answered(p) =>
            LET q    == StrUpper(StrStrip(proc[p].district))
                bd   == proc[p].entry.by_district
                hits == {i \in 1..Len(bd) : StrContains(bd[i].key, q)}
            IN  IF \E i \in 1..Len(bd) : bd[i].key = q /\ bd[i].value # <<>>
                THEN \E i \in 1..Len(bd) : bd[i].key = q /\ proc[p].found = bd[i].value
                ELSE IF hits # {}
                THEN \E i \in hits : /\ \A j \in hits : i <= j
                                     /\ proc[p].found = bd[i].value
                ELSE proc[p].found = <<>> /\ proc[p].summary = NoSummary

\* the query PUR, no key of its own, answered with the records under PURI
C11_Witness ==
    \E p \in Procs :
        /\ Answered(p) /\ proc[p].district = <<"P", "U", "R">>
        /\ ~HasKey(proc[p].entry.by_district, <<"P", "U", "R">>)
        /\ Len(proc[p].entry.by_district) >= 2
        /\ proc[p].found = Get(proc[p].entry.by_district, dPURI)
        /\ proc[p].found # <<>>

\* a build_cache_for_state_year call that fetched every record and returned
BuiltAll(p) ==
    /\ proc[p].op = "build" /\ proc[p].pc = "done" /\ ~proc[p].hit
    /\ proc[p].failed = "no" /\ Len(proc[p].all_records) = Len(UpstreamOf(p))

C13_EmptyDistrictNotCounted ==
    \A p \in Procs :
        (proc[p].op = "build" /\ proc[p].pc = "done" /\ ~proc[p].hit) =>
            LET e  == proc[p].entry
                bd == e.by_district
            IN  /\ \A i \in 1..Len(bd) :
                      /\ bd[i].key # <<>>
                      /\ \A j \in 1..Len(bd[i].value) :
                            bd[i].key = StrUpper(StrStrip(DistrictOf(bd[i].value[j])))
                /\ e.meta.total_records = SumSeq([i \in 1..Len(bd) |-> Len(bd[i].value)])

\* C14: a persistence failure is a hard error: a call whose read of cache.json
\* or district.json failed (read_json returned None) has raised; it does not
\* go on with an empty cache or registry.
C14_ReadFailureRaises ==
    \A p \in Procs :
        (proc[p].c_none \/ proc[p].d_none) => proc[p].pc = "raised"

\* the names a page would register: the stripped district of each record
PageNames(records) ==
    {DistrictOf(records[i]) : i \in 1..Len(records)} \ {<<>>}

LatestIdx(found) ==
    CHOOSE m \in 0..Len(month_order) :
        /\ \E i \in 1..Len(found) : month_idx(found[i]) = m
        /\ \A i \in 1..Len(found) : month_idx(found[i]) <= m

\* the response's headline is made from record i of found
HeadlineIs(p, i) ==
    proc[p].summary = [present |-> TRUE, month |-> proc[p].found[i].month,
                       wages |-> proc[p].found[i].Wages]

IsDigit(c) == \E i \in 1..Len(Digits) : Digits[i] = c

\* the number a field's text denotes, zero when it is not a number
RECURSIVE NumberOf(_)
NumberOf(s) ==
    IF s = <<>> \/ \E i \in 1..Len(s) : ~IsDigit(s[i]) THEN 0
    ELSE IF Len(s) = 1 THEN (CHOOSE i \in 1..Len(Digits) : Digits[i] = s[1]) - 1
    ELSE 10 * NumberOf(SubSeq(s, 1, Len(s) - 1)) + NumberOf(<<s[Len(s)]>>)

\* C17: the wages the response shows for the headline month are the mean,
\* to two decimals, of Wages over all the district's records of that month:
\* two Jan records with Wages 10 and 20 give 15.
C17_SummaryIsMonthlyMean ==
    \A p \in Procs :
        (Answered(p) /\ proc[p].summary.present /\ LatestIdx(proc[p].found) >= 1) =>
            LET found == proc[p].found
                same  == {i \in 1..Len(found) : month_idx(found[i]) = LatestIdx(found)}
                sum   == SumSeq([i \in 1..Len(found) |->
                                   IF i \in same THEN NumberOf(found[i].Wages) ELSE 0])
                n     == Cardinality(same)
                diff  == NumberOf(proc[p].summary.wages) * n - sum
            IN  200 * (IF diff < 0 THEN -diff ELSE diff) <= n

\* C18: with requests one after the other a refresh replaces one entry as a
\* whole and touches nothing else: a key stored in cache.json stays stored,
\* and when the entry under a key changes, the step is the os.replace of a
\* build_cache_for_state_year call for that key and the new by_district is
\* exactly the grouping of the records that call fetched.
C18_RefreshReplacesOneEntry ==
    [][\A i \in 1..Len(StoredCache) :
         LET k == StoredCache[i].key IN
         /\ HasKey(StoredCache', k)
         /\ Get(StoredCache', k) # StoredCache[i].value
            => \E p \in Procs :
                 /\ proc[p].pc = "45c" /\ Stepped(p) /\ KeyOf(p) = k
                 /\ Get(StoredCache', k).by_district
                      = GroupByDistrict(proc[p].all_records)]_vars

\* a stale entry with groups has been rebuilt from a fetch that returned
\* nothing: the stored entry has no groups left
C18_Witness ==
    \E p \in Procs :
        /\ proc[p].op = "build" /\ proc[p].pc = "done" /\ ~proc[p].hit
        /\ HasKey(proc[p].cache, KeyOf(p))
        /\ Get(proc[p].cache, KeyOf(p)).by_district # <<>>
        /\ HasKey(StoredCache, KeyOf(p))
        /\ Get(StoredCache, KeyOf(p)) = proc[p].entry
        /\ proc[p].entry.by_district = <<>>

\* the exact match of lines 221-225 in the stored cache for a thread's query
ExactRecords(p) ==
    LET q == StrUpper(StrStrip(proc[p].district)) IN
    IF HasKey(StoredCache, KeyOf(p)) /\ HasKey(Get(StoredCache, KeyOf(p)).by_district, q)
    THEN Get(Get(StoredCache, KeyOf(p)).by_district, q)
    ELSE <<>>

\* C19: district_page serves a stale entry as it is: when the key is stored
\* with now - fetched_at >= TTL and the exact district key has records, the
\* response carries those records, no request is sent and neither file
\* changes; the handler turns to build_cache_for_state_year only when the key
\* is absent or the exact match has no records.
C19_StaleEntryServedAsIs ==
    [][\A p \in Procs :
         (proc[p].pc = "215" /\ Stepped(p)) =>
            /\ ( /\ HasKey(StoredCache, KeyOf(p))
                 /\ clock >= (Get(StoredCache, KeyOf(p)).meta.fetched_at
                                + CACHE_TTL_SECONDS) * TicksPerSec
                 /\ ExactRecords(p) # <<>> )
               => /\ proc'[p].pc = "done"
                  /\ proc'[p].found = ExactRecords(p)
                  /\ proc'[p].summary.present
                  /\ apiCalls' = apiCalls
                  /\ disk' = disk /\ tmpf' = tmpf
            /\ proc'[p].pc = "162"
               <=> (~HasKey(StoredCache, KeyOf(p)) \/ ExactRecords(p) = <<>>)]_vars

\* a response made from an entry that is a TTL or more old, no request sent
C19_Witness ==
    \E p \in Procs :
        /\ Answered(p) /\ proc[p].found # <<>>
        /\ clock >= (proc[p].entry.meta.fetched_at + CACHE_TTL_SECONDS) * TicksPerSec
        /\ proc[p].entry = Get(StoredCache, KeyOf(p))
        /\ apiCalls = 0

\* a thread about to make the build_cache_for_state_year call of line 230
\* after the call of line 218 of the same request fetched and returned
SecondCallAfterFetch(p) ==
    /\ proc[p].pc = "162" /\ proc[p].ret = "232" /\ proc[p].entry # NoEntry
    /\ Stepped(p)

====
